---------------------------- MODULE Spec2Model ----------------------------
(***************************************************************************)
(* A model of the PDF query assistant: the embedder singleton of           *)
(* src/lib/embedder.ts, cosineSimilarity of src/lib/vector.ts and the      *)
(* chunker, the document load and the query of                             *)
(* src/components/PdfQueryAssistant.tsx.                                   *)
(*                                                                         *)
(* JavaScript runs one handler at a time up to its next await, so every    *)
(* action below is one such run: from the event (or from the resolution of *)
(* the awaited promise) up to the next await that waits for something      *)
(* outside the program (the model load, an inference call, the PDF         *)
(* reader).  An await of a promise that is already settled resumes in the  *)
(* same microtask checkpoint, before any other event, and is part of the   *)
(* same action.                                                            *)
(***************************************************************************)
EXTENDS Integers, Sequences, FiniteSets, TLC

(***************************************************************************)
(* Program constants.                                                      *)
(***************************************************************************)
CHUNK_SIZE == 700
CHUNK_OVERLAP == 150
TOP_K == 5

(***************************************************************************)
(* Bounds of the model.                                                    *)
(***************************************************************************)
\* handleFileChange runs started in one behaviour
MaxLoads == 2
\* handleQuery runs started in one behaviour
MaxQueries == 2
\* length of the vectors the model returns (384 for all-MiniLM-L6-v2)
EmbedDim == 2
\* largest index of the ranking specification
MaxIndex == 6
\* length of the longest page text given to buildChunks on its own
MaxTextLen == 1849
\* length of the longest vector given to cosineSimilarity on its own
MaxVecLen == 3

NUL == "NUL"
NULL == "null"

(***************************************************************************)
(* Texts are sequences of characters.                                      *)
(***************************************************************************)
IsWhitespace(c) == c \in {" ", "\n", "\t"}

\* the first index from i upwards that holds no whitespace, Len(s) + 1 when
\* there is none
firstKept(s, i) ==
  IF \A k \in i..Len(s) : IsWhitespace(s[k]) THEN Len(s) + 1
  ELSE CHOOSE k \in i..Len(s) : ~IsWhitespace(s[k])
                                 /\ \A m \in i..(k - 1) : IsWhitespace(s[m])

\* the last index from j downwards that holds no whitespace, 0 when there is
\* none
lastKept(s, j) ==
  IF \A k \in 1..j : IsWhitespace(s[k]) THEN 0
  ELSE j - (CHOOSE d \in 0..(j - 1) : ~IsWhitespace(s[j - d])
                                      /\ \A m \in (j - d + 1)..j : IsWhitespace(s[m]))

\* a variant that removes the whitespace at the start only: trimStart
trimStart(s) == SubSeq(s, firstKept(s, 1), Len(s))

\* String.prototype.trim
trim(s) == SubSeq(s, firstKept(s, 1), lastKept(s, Len(s)))

\* text.replace(/\u0000/g, '')
stripNul(text) == SelectSeq(text, LAMBDA c : c # NUL)

\* a variant that leaves out the last character: cleaned.slice(start, end - 1)
sliceShort(s, start, end) == SubSeq(s, start + 1, end - 1)

\* cleaned.slice(start, end), with 0-based offsets
slice(s, start, end) == SubSeq(s, start + 1, end)

\* a variant that derives the id from the page alone
chunkIdOfPage(page, start) == ToString(page)

\* the template literal `${page}-${start}`
chunkId(page, start) == ToString(page) \o "-" \o ToString(start)

\* a variant that takes the window one character short of CHUNK_SIZE
windowEndShort(start, cleaned) ==
  IF start + CHUNK_SIZE - 1 < Len(cleaned)
  THEN start + CHUNK_SIZE - 1 ELSE Len(cleaned)

\* line 94: Math.min(start + CHUNK_SIZE, cleaned.length)
windowEnd(start, cleaned) ==
  IF start + CHUNK_SIZE < Len(cleaned) THEN start + CHUNK_SIZE ELSE Len(cleaned)

\* a variant that leaves a gap between windows: start = end + CHUNK_OVERLAP
nextStartSkipping(end) == end + CHUNK_OVERLAP

\* a variant without overlap: start = end
nextStartNoOverlap(end) == end

\* lines 109-112: start = end - CHUNK_OVERLAP, clamped to 0
nextStart(end) == IF end - CHUNK_OVERLAP < 0 THEN 0 ELSE end - CHUNK_OVERLAP

RECURSIVE chunkLoop(_, _, _, _)
chunkLoop(cleaned, page, start, chunks) ==
  IF ~(start < Len(cleaned)) THEN chunks
  ELSE
    LET end == windowEnd(start, cleaned)
        normalizedSegment == trim(slice(cleaned, start, end))
        pushed == IF Len(normalizedSegment) > 0
                  THEN Append(chunks, [id |-> chunkId(page, start), page |-> page,
                                       text |-> normalizedSegment,
                                       start |-> start, end |-> end])
                  ELSE chunks
    IN  IF end = Len(cleaned) THEN pushed
        ELSE chunkLoop(cleaned, page, nextStart(end), pushed)

\* the number of times the body of the while loop of lines 93-113 runs
RECURSIVE loopIterations(_, _)
loopIterations(cleaned, start) ==
  IF ~(start < Len(cleaned)) THEN 0
  ELSE LET end == windowEnd(start, cleaned)
       IN  IF end = Len(cleaned) THEN 1
           ELSE 1 + loopIterations(cleaned, nextStart(end))

buildChunks(text, page) == chunkLoop(stripNul(text), page, 0, <<>>)


(***************************************************************************)
(* Vectors are sequences of integers.  A score stands for the number       *)
(* num / sqrt(den2), den2 > 0: what dot / Math.sqrt(normA * normB) is      *)
(* before rounding.                                                        *)
(***************************************************************************)
RECURSIVE sumTo(_, _)
sumTo(f, n) == IF n = 0 THEN 0 ELSE sumTo(f, n - 1) + f[n]

zeroScore == [num |-> 0, den2 |-> 1]

\* a variant that only rejects a first vector longer than the second
lengthsDifferLonger(a, b) == Len(a) > Len(b)

\* line 2: if (a.length !== b.length)
lengthsDiffer(a, b) == Len(a) # Len(b)

\* a variant that returns 0 only when both norms are zero
zeroNormBoth(normA, normB) == normA = 0 /\ normB = 0

\* line 15: if (normA === 0 || normB === 0)
zeroNorm(normA, normB) == normA = 0 \/ normB = 0

\* a call that throws returns [thrown |-> TRUE]; divided tells whether the
\* call returned from the division of line 18
cosineSimilarity(a, b) ==
  IF lengthsDiffer(a, b)
  THEN [thrown |-> TRUE, value |-> zeroScore, divided |-> FALSE]
  ELSE
    LET dot   == sumTo([i \in 1..Len(a) |-> a[i] * b[i]], Len(a))
        normA == sumTo([i \in 1..Len(a) |-> a[i] * a[i]], Len(a))
        normB == sumTo([i \in 1..Len(a) |-> b[i] * b[i]], Len(a))
    IN  IF zeroNorm(normA, normB)
        THEN [thrown |-> FALSE, value |-> zeroScore, divided |-> FALSE]
        ELSE [thrown |-> FALSE, value |-> [num |-> dot, den2 |-> normA * normB],
              divided |-> TRUE]

sign(x) == IF x > 0 THEN 1 ELSE IF x < 0 THEN -1 ELSE 0

\* the sign of s - t for two scores
scoreDiff(s, t) ==
  LET l == s.num * s.num * t.den2
      r == t.num * t.num * s.den2
  IN  IF sign(s.num) # sign(t.num) THEN sign(sign(s.num) - sign(t.num))
      ELSE IF s.num >= 0 THEN sign(l - r) ELSE sign(r - l)

\* the comparator (a, b) => (b.score ?? 0) - (a.score ?? 0)
compareFn(a, b) == scoreDiff(b.score, a.score)

\* a sort that is not stable: e goes before the elements it ties with
insertSortedBeforeTies(sorted, e) ==
  LET k == Cardinality({i \in 1..Len(sorted) : compareFn(sorted[i], e) < 0})
  IN  SubSeq(sorted, 1, k) \o <<e>> \o SubSeq(sorted, k + 1, Len(sorted))

\* Array.prototype.sort: stable, a stays before b unless compareFn(a, b) > 0
insertSorted(sorted, e) ==
  LET k == Cardinality({i \in 1..Len(sorted) : compareFn(sorted[i], e) <= 0})
  IN  SubSeq(sorted, 1, k) \o <<e>> \o SubSeq(sorted, k + 1, Len(sorted))

RECURSIVE sortUpTo(_, _)
sortUpTo(seq, n) ==
  IF n = 0 THEN <<>> ELSE insertSorted(sortUpTo(seq, n - 1), seq[n])

sort(seq) == sortUpTo(seq, Len(seq))

\* .slice(0, 5)
sliceTop(seq) == SubSeq(seq, 1, IF Len(seq) < TOP_K THEN Len(seq) ELSE TOP_K)

withScore(snippet, score) ==
  [id |-> snippet.id, page |-> snippet.page, text |-> snippet.text,
   embedding |-> snippet.embedding, start |-> snippet.start,
   end |-> snippet.end, score |-> score]

\* snippets.map(...).sort(...).slice(0, 5); the map throws when one
\* cosineSimilarity call throws
scoreSnippets(questionEmbedding, index) ==
  IF \E i \in 1..Len(index) :
       cosineSimilarity(questionEmbedding, index[i].embedding).thrown
  THEN [thrown |-> TRUE, value |-> <<>>]
  ELSE [thrown |-> FALSE,
        value |-> sliceTop(sort([i \in 1..Len(index) |->
          withScore(index[i],
            cosineSimilarity(questionEmbedding, index[i].embedding).value)]))]

(***************************************************************************)
(* The inference collaborator: the feature-extraction pipeline is a        *)
(* function of the text.  It stands here as a fixed function to vectors of *)
(* EmbedDim components in -1..1.                                           *)
(***************************************************************************)
RECURSIVE pow3(_)
pow3(n) == IF n = 0 THEN 1 ELSE 3 * pow3(n - 1)

emb(text) ==
  LET h == Len(text) + (IF Len(text) > 0 /\ text[1] = "b" THEN 4 ELSE 0)
  IN  [i \in 1..EmbedDim |-> ((h \div pow3(i - 1)) % 3) - 1]


(***************************************************************************)
(* The documents a user can upload (after the text extraction of lines     *)
(* 167-179) and the questions a user can type.                             *)
(***************************************************************************)
longText == [i \in 1..(CHUNK_SIZE + 1) |-> IF i % 7 = 0 THEN " " ELSE "a"]

Docs ==
  << [name |-> "one.pdf", pages |-> << <<"a", "b">>, <<>>, longText >>],
     [name |-> "two.pdf", pages |-> << <<"b">> >>],
     [name |-> "scan.pdf", pages |-> << <<>> >>] >>

Questions == { <<>>, <<" ">>, <<"a">>, <<"b", " ">> }

(***************************************************************************)
(* State.                                                                  *)
(*  embedderPromise  0 for null, else the promise pipeline(...).then(...)  *)
(*                   made by the embedderPromise-th call of pipeline       *)
(*  promiseState     the state of every such promise, in creation order    *)
(*  waiters          the continuations awaiting a pending promise, in the  *)
(*                   order they began to wait                              *)
(*  loads, queries   the runs of handleFileChange and of handleQuery, in   *)
(*                   the order they started, each with its locals          *)
(*  the React state of the component                                       *)
(*  arg, ret         input and result of a function applied on its own     *)
(***************************************************************************)
VARIABLES embedderPromise, promiseState, waiters, loads, queries,
          pdfDocument, fileName, snippets, question, status, isProcessing,
          isQuerying, results, selectedSnippet, progress, arg, ret

vars == <<embedderPromise, promiseState, waiters, loads, queries,
          pdfDocument, fileName, snippets, question, status, isProcessing,
          isQuerying, results, selectedSnippet, progress, arg, ret>>

embedderVars == <<embedderPromise, promiseState, waiters>>
harnessVars == <<arg, ret>>

Init ==
  /\ embedderPromise = 0
  /\ promiseState = <<>>
  /\ waiters = <<>>
  /\ loads = <<>>
  /\ queries = <<>>
  /\ pdfDocument = NULL
  /\ fileName = NULL
  /\ snippets = <<>>
  /\ question = <<>>
  /\ status = NULL
  /\ isProcessing = FALSE
  /\ isQuerying = FALSE
  /\ results = <<>>
  /\ selectedSnippet = <<>>
  /\ progress = <<0, 1>>
  /\ arg = <<>>
  /\ ret = <<>>

(***************************************************************************)
(* embedText, lines 38-39, from the outcome of its inference call: the     *)
(* call rejects, or resolves with { data }.                                *)
(***************************************************************************)
\* Array.from(data): a new array of the same numbers
arrayFrom(data) == [i \in 1..Len(data) |-> data[i]]

embedTextReturn(outcome) ==
  IF outcome.fails THEN [thrown |-> TRUE, value |-> <<>>]
  ELSE [thrown |-> FALSE, value |-> arrayFrom(outcome.data)]

(***************************************************************************)
(* getEmbedder.                                                            *)
(***************************************************************************)
\* a variant that starts a new model load after a failed one
embedderMissingAfterFailure(promise, states) ==
  promise = 0 \/ states[promise] = "rejected"

\* a variant that caches the embedder only once it has loaded
embedderMissingUntilLoaded(promise, states) ==
  promise = 0 \/ states[promise] # "resolved"

\* if (!embedderPromise)
embedderMissing(promise, states) == promise = 0

promiseAfterGet ==
  IF embedderMissing(embedderPromise, promiseState)
  THEN Len(promiseState) + 1 ELSE embedderPromise

statesAfterGet ==
  IF embedderMissing(embedderPromise, promiseState)
  THEN Append(promiseState, "pending") ELSE promiseState


(***************************************************************************)
(* handleFileChange.                                                       *)
(***************************************************************************)
totalPages(ld) == Len(Docs[ld.doc].pages)

newLoad(d) ==
  [doc |-> d, pc |-> "read", result |-> "running", pageNumber |-> 0,
   localSnippets |-> <<>>, pageChunks |-> <<>>, embeddings |-> <<>>,
   text |-> <<>>, handle |-> 0]

\* a run that has returned: its locals are gone
endedLoad(ld, how) ==
  [doc |-> ld.doc, pc |-> "done", result |-> how, pageNumber |-> 0,
   localSnippets |-> <<>>, pageChunks |-> <<>>, embeddings |-> <<>>,
   text |-> <<>>, handle |-> 0]

extractingStatus(pageNumber, total) ==
  "Extracting page " \o ToString(pageNumber) \o " of " \o ToString(total) \o "..."

embeddingStatus(pageNumber, total) ==
  "Embedding page " \o ToString(pageNumber) \o " of " \o ToString(total) \o "..."

\* lines 140-149: the event, resetState and the first await
HandleFileChange(d) ==
  /\ Len(loads) < MaxLoads
  /\ snippets' = <<>>
  /\ results' = <<>>
  /\ selectedSnippet' = <<>>
  /\ question' = <<>>
  /\ progress' = <<0, 1>>
  /\ status' = "Loading PDF..."
  /\ isProcessing' = TRUE
  /\ fileName' = Docs[d].name
  /\ loads' = Append(loads, newLoad(d))
  /\ UNCHANGED <<embedderVars, queries, pdfDocument, isQuerying, harnessVars>>

\* lines 203-208: catch and finally
LoadCatch(l) ==
  /\ status' = "Something went wrong while processing the PDF."
  /\ isProcessing' = FALSE
  /\ loads' = [loads EXCEPT ![l] = endedLoad(@, "failed")]
  /\ UNCHANGED <<snippets, progress>>

\* an awaited call of the PDF reader or of the embedder rejects
LoadFail(l) ==
  /\ loads[l].pc \in {"read", "extract", "infer"}
  /\ LoadCatch(l)
  /\ UNCHANGED <<embedderVars, queries, pdfDocument, fileName, question,
                 isQuerying, results, selectedSnippet, harnessVars>>

\* lines 152-164: the buffer and the document arrive, the loop starts
LoadRead(l) ==
  /\ loads[l].pc = "read"
  /\ pdfDocument' = Docs[loads[l].doc].name
  /\ status' = extractingStatus(1, totalPages(loads[l]))
  /\ loads' = [loads EXCEPT ![l].pc = "extract", ![l].pageNumber = 1]
  /\ UNCHANGED <<embedderVars, queries, fileName, snippets, question,
                 isProcessing, isQuerying, results, selectedSnippet, progress,
                 harnessVars>>

\* a variant that publishes the passages built so far after every page
afterPagePublishing(l, local) ==
  LET ld == loads[l]
  IN  /\ progress' = <<ld.pageNumber, totalPages(ld)>>
      /\ snippets' = local
      /\ IF ld.pageNumber + 1 <= totalPages(ld)
         THEN /\ status' = extractingStatus(ld.pageNumber + 1, totalPages(ld))
              /\ loads' = [loads EXCEPT ![l] =
                   [ld EXCEPT !.pc = "extract", !.pageNumber = ld.pageNumber + 1,
                              !.localSnippets = local, !.pageChunks = <<>>,
                              !.embeddings = <<>>, !.text = <<>>]]
              /\ UNCHANGED isProcessing
         ELSE /\ status' = "Document ready. Ask a question to search."
              /\ isProcessing' = FALSE
              /\ loads' = [loads EXCEPT ![l] = endedLoad(ld, "ok")]

\* lines 198-202 and 206-207: the end of one iteration with localSnippets
\* as `local`, then the next iteration up to its await, or the commit
afterPage(l, local) ==
  LET ld == loads[l]
  IN  /\ progress' = <<ld.pageNumber, totalPages(ld)>>
      /\ IF ld.pageNumber + 1 <= totalPages(ld)
         THEN /\ status' = extractingStatus(ld.pageNumber + 1, totalPages(ld))
              /\ loads' = [loads EXCEPT ![l] =
                   [ld EXCEPT !.pc = "extract", !.pageNumber = ld.pageNumber + 1,
                              !.localSnippets = local, !.pageChunks = <<>>,
                              !.embeddings = <<>>, !.text = <<>>]]
              /\ UNCHANGED <<snippets, isProcessing>>
         ELSE /\ snippets' = local
              /\ status' = "Document ready. Ask a question to search."
              /\ isProcessing' = FALSE
              /\ loads' = [loads EXCEPT ![l] = endedLoad(ld, "ok")]

\* line 182: if (pageChunks.length === 0)
skipPage(pageChunks) == Len(pageChunks) = 0

\* lines 165-188: the page's text arrives; the chunks; embedBatch is called
\* and runs up to its first await that has to wait
LoadExtract(l) ==
  LET ld == loads[l]
      pageChunks == buildChunks(Docs[ld.doc].pages[ld.pageNumber], ld.pageNumber)
      h == promiseAfterGet
  IN  /\ ld.pc = "extract"
      /\ IF skipPage(pageChunks)
         THEN /\ afterPage(l, ld.localSnippets)
              /\ UNCHANGED embedderVars
         ELSE /\ embedderPromise' = h
              /\ promiseState' = statesAfterGet
              /\ CASE statesAfterGet[h] = "pending" ->
                        /\ status' = embeddingStatus(ld.pageNumber, totalPages(ld))
                        /\ UNCHANGED <<snippets, isProcessing, progress>>
                        /\ waiters' = Append(waiters, [kind |-> "load", run |-> l])
                        /\ loads' = [loads EXCEPT ![l] =
                             [ld EXCEPT !.pc = "awaitEmbedder", !.handle = h,
                                        !.pageChunks = pageChunks]]
                   [] statesAfterGet[h] = "resolved" ->
                        /\ status' = embeddingStatus(ld.pageNumber, totalPages(ld))
                        /\ UNCHANGED <<snippets, isProcessing, progress>>
                        /\ waiters' = waiters
                        /\ loads' = [loads EXCEPT ![l] =
                             [ld EXCEPT !.pc = "infer", !.handle = h,
                                        !.pageChunks = pageChunks,
                                        !.text = pageChunks[1].text]]
                   [] statesAfterGet[h] = "rejected" ->
                        /\ waiters' = waiters
                        /\ LoadCatch(l)
  /\ UNCHANGED <<queries, pdfDocument, fileName, question, isQuerying,
                 results, selectedSnippet, harnessVars>>

\* a variant that pairs the chunks with the embeddings in reverse
zipSnippetsReversed(pageChunks, embeddings) ==
  [i \in 1..Len(embeddings) |->
     [id |-> pageChunks[i].id, page |-> pageChunks[i].page,
      text |-> pageChunks[i].text,
      embedding |-> embeddings[Len(embeddings) + 1 - i],
      start |-> pageChunks[i].start, end |-> pageChunks[i].end]]

RECURSIVE flat(_)
flat(vectors) ==
  IF Len(vectors) = 0 THEN <<>> ELSE vectors[1] \o flat(Tail(vectors))

\* a variant that gives every chunk the whole batch: embeddings.flat()
zipSnippetsFlat(pageChunks, embeddings) ==
  [i \in 1..Len(embeddings) |->
     [id |-> pageChunks[i].id, page |-> pageChunks[i].page,
      text |-> pageChunks[i].text, embedding |-> flat(embeddings),
      start |-> pageChunks[i].start, end |-> pageChunks[i].end]]

\* lines 190-196: embeddings.forEach((embedding, index) => push)
zipSnippets(pageChunks, embeddings) ==
  [i \in 1..Len(embeddings) |->
     [id |-> pageChunks[i].id, page |-> pageChunks[i].page,
      text |-> pageChunks[i].text, embedding |-> embeddings[i],
      start |-> pageChunks[i].start, end |-> pageChunks[i].end]]

\* a variant that puts the new embedding first: embeddings.unshift(...)
pushEmbeddingFirst(embeddings, data) == <<data>> \o embeddings

\* embeddings.push(Array.from(data))
pushEmbedding(embeddings, data) == Append(embeddings, data)

\* the text of the next call of embedBatch's loop: for (const text of texts)
nextText(pageChunks, embeddings) == pageChunks[Len(embeddings) + 1].text

\* embedder.ts lines 45-49 and lines 188-196: one inference call resolves
LoadInfer(l) ==
  LET ld == loads[l]
      embeddings == pushEmbedding(ld.embeddings, arrayFrom(emb(ld.text)))
  IN  /\ ld.pc = "infer"
      /\ IF Len(embeddings) < Len(ld.pageChunks)
         THEN /\ loads' = [loads EXCEPT ![l] =
                   [ld EXCEPT !.embeddings = embeddings,
                              !.text = nextText(ld.pageChunks, embeddings)]]
              /\ UNCHANGED <<snippets, status, isProcessing, progress>>
         ELSE afterPage(l, ld.localSnippets \o zipSnippets(ld.pageChunks, embeddings))
      /\ UNCHANGED <<embedderVars, queries, pdfDocument, fileName, question,
                     isQuerying, results, selectedSnippet, harnessVars>>


(***************************************************************************)
(* handleQuery.                                                            *)
(***************************************************************************)
newQuery(text, index, pc, h) ==
  [question |-> text, snippets |-> index, pc |-> pc, result |-> "running",
   handle |-> h]

\* a run that has returned
endedQuery(how) ==
  [question |-> <<>>, snippets |-> <<>>, pc |-> "done", result |-> how,
   handle |-> 0]

\* a variant that tests the question without trimming it
queryReturnsEarlyUntrimmed(q, index) == Len(q) = 0 \/ Len(index) = 0

\* line 216: if (!question.trim() || !snippets.length) return
queryReturnsEarly(q, index) == Len(trim(q)) = 0 \/ Len(index) = 0

\* a variant whose catch also clears what is displayed
QueryCatchClearing ==
  /\ status' = "Unable to search the document right now."
  /\ isQuerying' = FALSE
  /\ results' = <<>>
  /\ selectedSnippet' = <<>>

\* lines 240-245: catch and finally
QueryCatch ==
  /\ status' = "Unable to search the document right now."
  /\ isQuerying' = FALSE
  /\ UNCHANGED <<results, selectedSnippet>>

\* lines 214-224: the submit event, up to the first await of embedText that
\* has to wait.  The run keeps the question and the snippets of the render
\* that made the callback.
HandleQuery ==
  LET h == promiseAfterGet
  IN  /\ Len(queries) < MaxQueries
      /\ IF queryReturnsEarly(question, snippets)
         THEN /\ queries' = Append(queries, endedQuery("skipped"))
              /\ UNCHANGED <<embedderVars, status, isQuerying, results,
                             selectedSnippet>>
         ELSE /\ embedderPromise' = h
              /\ promiseState' = statesAfterGet
              /\ CASE statesAfterGet[h] = "pending" ->
                        /\ status' = "Finding the best matching passages..."
                        /\ isQuerying' = TRUE
                        /\ UNCHANGED <<results, selectedSnippet>>
                        /\ waiters' = Append(waiters,
                             [kind |-> "query", run |-> Len(queries) + 1])
                        /\ queries' = Append(queries,
                             newQuery(trim(question), snippets, "awaitEmbedder", h))
                   [] statesAfterGet[h] = "resolved" ->
                        /\ status' = "Finding the best matching passages..."
                        /\ isQuerying' = TRUE
                        /\ UNCHANGED <<results, selectedSnippet>>
                        /\ waiters' = waiters
                        /\ queries' = Append(queries,
                             newQuery(trim(question), snippets, "infer", h))
                   [] statesAfterGet[h] = "rejected" ->
                        /\ waiters' = waiters
                        /\ QueryCatch
                        /\ queries' = Append(queries, endedQuery("failed"))
      /\ UNCHANGED <<loads, pdfDocument, fileName, snippets, question,
                     isProcessing, progress, harnessVars>>

\* lines 224-239 and 243-245: the question's embedding arrives
QueryInfer(k) ==
  LET qr == queries[k]
      questionEmbedding ==
        embedTextReturn([fails |-> FALSE, data |-> emb(qr.question)]).value
      scored == scoreSnippets(questionEmbedding, qr.snippets)
  IN  /\ qr.pc = "infer"
      /\ IF scored.thrown
         THEN /\ QueryCatch
              /\ queries' = [queries EXCEPT ![k] = endedQuery("failed")]
         ELSE /\ results' = scored.value
              /\ selectedSnippet' =
                   IF Len(scored.value) > 0 THEN <<scored.value[1]>> ELSE <<>>
              /\ status' = IF Len(scored.value) > 0
                           THEN "Showing the most relevant excerpts."
                           ELSE "No matching content found for that question."
              /\ isQuerying' = FALSE
              /\ queries' = [queries EXCEPT ![k] = endedQuery("ok")]
      /\ UNCHANGED <<embedderVars, loads, pdfDocument, fileName, snippets,
                     question, isProcessing, progress, harnessVars>>

\* the inference call of embedText rejects
QueryFail(k) ==
  /\ queries[k].pc = "infer"
  /\ QueryCatch
  /\ queries' = [queries EXCEPT ![k] = endedQuery("failed")]
  /\ UNCHANGED <<embedderVars, loads, pdfDocument, fileName, snippets,
                 question, isProcessing, progress, harnessVars>>

(***************************************************************************)
(* The model load settles: every continuation awaiting the promise runs,   *)
(* in the order they began to wait, up to its next await.                  *)
(***************************************************************************)
awaits(w, p) ==
  IF w.kind = "load" THEN loads[w.run].handle = p ELSE queries[w.run].handle = p

waitersOf(p) == SelectSeq(waiters, LAMBDA w : awaits(w, p))

PipelineResolve(p) ==
  LET woken == waitersOf(p)
      wokenLoads == {woken[i].run : i \in {j \in 1..Len(woken) : woken[j].kind = "load"}}
      wokenQueries == {woken[i].run : i \in {j \in 1..Len(woken) : woken[j].kind = "query"}}
  IN  /\ promiseState[p] = "pending"
      /\ promiseState' = [promiseState EXCEPT ![p] = "resolved"]
      /\ waiters' = SelectSeq(waiters, LAMBDA w : ~awaits(w, p))
      /\ loads' = [l \in 1..Len(loads) |->
           IF l \in wokenLoads
           THEN [loads[l] EXCEPT !.pc = "infer", !.text = loads[l].pageChunks[1].text]
           ELSE loads[l]]
      /\ queries' = [k \in 1..Len(queries) |->
           IF k \in wokenQueries THEN [queries[k] EXCEPT !.pc = "infer"]
           ELSE queries[k]]
      /\ UNCHANGED <<embedderPromise, pdfDocument, fileName, snippets, question,
                     status, isProcessing, isQuerying, results, selectedSnippet,
                     progress, harnessVars>>

PipelineReject(p) ==
  LET woken == waitersOf(p)
      wokenLoads == {woken[i].run : i \in {j \in 1..Len(woken) : woken[j].kind = "load"}}
      wokenQueries == {woken[i].run : i \in {j \in 1..Len(woken) : woken[j].kind = "query"}}
  IN  /\ promiseState[p] = "pending"
      /\ promiseState' = [promiseState EXCEPT ![p] = "rejected"]
      /\ waiters' = SelectSeq(waiters, LAMBDA w : ~awaits(w, p))
      /\ loads' = [l \in 1..Len(loads) |->
           IF l \in wokenLoads THEN endedLoad(loads[l], "failed") ELSE loads[l]]
      /\ queries' = [k \in 1..Len(queries) |->
           IF k \in wokenQueries THEN endedQuery("failed") ELSE queries[k]]
      /\ status' =
           IF Len(woken) = 0 THEN status
           ELSE IF woken[Len(woken)].kind = "load"
                THEN "Something went wrong while processing the PDF."
                ELSE "Unable to search the document right now."
      /\ isProcessing' = IF wokenLoads = {} THEN isProcessing ELSE FALSE
      /\ isQuerying' = IF wokenQueries = {} THEN isQuerying ELSE FALSE
      /\ UNCHANGED <<embedderPromise, pdfDocument, fileName, snippets, question,
                     results, selectedSnippet, progress, harnessVars>>

(***************************************************************************)
(* The other events of the component.                                      *)
(***************************************************************************)
\* line 257
hasDocument == Len(snippets) > 0

\* lines 324 and 327, and the effect of lines 250-255
SetQuestion(q) ==
  /\ hasDocument /\ ~isProcessing
  /\ q # question
  /\ question' = q
  /\ IF Len(q) = 0
     THEN results' = <<>> /\ selectedSnippet' = <<>>
     ELSE UNCHANGED <<results, selectedSnippet>>
  /\ UNCHANGED <<embedderVars, loads, queries, pdfDocument, fileName, snippets,
                 status, isProcessing, isQuerying, progress, harnessVars>>

\* line 362, inside the section of line 312
SelectSnippet(i) ==
  /\ hasDocument
  /\ selectedSnippet # <<results[i]>>
  /\ selectedSnippet' = <<results[i]>>
  /\ UNCHANGED <<embedderVars, loads, queries, pdfDocument, fileName, snippets,
                 question, status, isProcessing, isQuerying, results, progress,
                 harnessVars>>

Next ==
  \/ \E d \in 1..Len(Docs) : HandleFileChange(d)
  \/ \E l \in 1..Len(loads) : LoadRead(l)
  \/ \E l \in 1..Len(loads) : LoadExtract(l)
  \/ \E l \in 1..Len(loads) : LoadInfer(l)
  \/ \E l \in 1..Len(loads) : LoadFail(l)
  \/ HandleQuery
  \/ \E k \in 1..Len(queries) : QueryInfer(k)
  \/ \E k \in 1..Len(queries) : QueryFail(k)
  \/ \E p \in 1..Len(promiseState) : PipelineResolve(p)
  \/ \E p \in 1..Len(promiseState) : PipelineReject(p)
  \/ \E q \in Questions : SetQuestion(q)
  \/ \E i \in 1..Len(results) : SelectSnippet(i)

Spec == Init /\ [][Next]_vars


(***************************************************************************)
(* The ranking of lines 225-231 applied on its own: arg holds one question *)
(* embedding and one index, ret the list the ranking returns.              *)
(***************************************************************************)
\* two components, padded with zeros to the model's dimension
padded(x, y) == [i \in 1..EmbedDim |-> IF i = 1 THEN x ELSE IF i = 2 THEN y ELSE 0]

RankEmbeddings == {padded(1, 0), padded(1, 1), padded(0, 1), padded(0, 0)}
RankQuestions == {padded(1, 0), padded(1, 1), padded(-1, 1)}

rankIndex(embeddings) ==
  [i \in 1..Len(embeddings) |->
     [id |-> chunkId(1, i - 1), page |-> 1, text |-> <<"a">>,
      embedding |-> embeddings[i], start |-> i - 1, end |-> i]]

InitRank ==
  /\ embedderPromise = 0 /\ promiseState = <<>> /\ waiters = <<>>
  /\ loads = <<>> /\ queries = <<>>
  /\ pdfDocument = NULL /\ fileName = NULL /\ snippets = <<>>
  /\ question = <<>> /\ status = NULL
  /\ isProcessing = FALSE /\ isQuerying = FALSE
  /\ results = <<>> /\ selectedSnippet = <<>> /\ progress = <<0, 1>>
  /\ \E n \in 1..MaxIndex : \E e \in [1..n -> RankEmbeddings] :
       \E q \in RankQuestions :
         arg = <<[questionEmbedding |-> q, index |-> rankIndex(e)]>>
  /\ ret = <<>>

ApplyRank ==
  /\ Len(arg) = 1 /\ Len(ret) = 0
  /\ ret' = <<scoreSnippets(arg[1].questionEmbedding, arg[1].index)>>
  /\ UNCHANGED <<embedderVars, loads, queries, pdfDocument, fileName, snippets,
                 question, status, isProcessing, isQuerying, results,
                 selectedSnippet, progress, arg>>

NextRank == ApplyRank

SpecRank == InitRank /\ [][NextRank]_vars

(***************************************************************************)
(* embedText applied on its own to every outcome of its inference call:    *)
(* arg holds the outcome, ret what embedText returns.  Here the components *)
(* of a vector are written as strings, "NaN" among them, and the           *)
(* collaborator may return a vector of any length up to EmbedDim + 1.      *)
(***************************************************************************)
Components == {"-1", "0", "1", "NaN"}

InferenceOutcomes ==
  {[fails |-> TRUE, data |-> <<>>]} \cup
  UNION {{[fails |-> FALSE, data |-> v] : v \in [1..n -> Components]} :
           n \in 0..(EmbedDim + 1)}

InitEmbedText ==
  /\ embedderPromise = 0 /\ promiseState = <<>> /\ waiters = <<>>
  /\ loads = <<>> /\ queries = <<>>
  /\ pdfDocument = NULL /\ fileName = NULL /\ snippets = <<>>
  /\ question = <<>> /\ status = NULL
  /\ isProcessing = FALSE /\ isQuerying = FALSE
  /\ results = <<>> /\ selectedSnippet = <<>> /\ progress = <<0, 1>>
  /\ \E o \in InferenceOutcomes : arg = <<o>>
  /\ ret = <<>>

\* the inference call of embedText settles and embedText returns or throws
EmbedTextSettles ==
  /\ Len(arg) = 1 /\ Len(ret) = 0
  /\ ret' = <<embedTextReturn(arg[1])>>
  /\ UNCHANGED <<embedderVars, loads, queries, pdfDocument, fileName, snippets,
                 question, status, isProcessing, isQuerying, results,
                 selectedSnippet, progress, arg>>

NextEmbedText == EmbedTextSettles

SpecEmbedText == InitEmbedText /\ [][NextEmbedText]_vars

(***************************************************************************)
(* buildChunks applied on its own: arg holds a page text and a page        *)
(* number, ret the chunks buildChunks returns and the number of iterations *)
(* its loop made.  The texts are of every length that is at most one       *)
(* character away from a multiple of 50 (window starts and ends fall on    *)
(* multiples of 50), in shapes that put whitespace and NUL characters      *)
(* where the loop treats them specially.                                   *)
(***************************************************************************)
TextLengths == {n \in 0..MaxTextLen : n < 3 \/ n % 50 \in {0, 1, 49}}

TextShapes == {"solid", "blank", "padded", "head", "tail", "hole", "nul"}

\* the i-th character, from 1, of the text of a shape and of length n
charAt(shape, n, i) ==
  CASE shape = "solid"  -> "a"
    [] shape = "blank"  -> IF i % 2 = 0 THEN " " ELSE "\n"
    [] shape = "padded" -> IF i = 1 THEN "\t" ELSE IF i = n THEN " " ELSE "a"
    [] shape = "head"   -> IF i <= 100 THEN "a" ELSE " "
    [] shape = "tail"   -> IF i > n - 100 THEN "b" ELSE " "
    [] shape = "hole"   -> IF i > CHUNK_SIZE - CHUNK_OVERLAP
                              /\ i <= 2 * CHUNK_SIZE - CHUNK_OVERLAP
                           THEN " " ELSE "a"
    [] shape = "nul"    -> IF i = 1 THEN NUL ELSE IF i = 2 THEN " " ELSE "a"

textOf(shape, n) == [i \in 1..n |-> charAt(shape, n, i)]

ChunkPages == {1, 2}

InitChunks ==
  /\ embedderPromise = 0 /\ promiseState = <<>> /\ waiters = <<>>
  /\ loads = <<>> /\ queries = <<>>
  /\ pdfDocument = NULL /\ fileName = NULL /\ snippets = <<>>
  /\ question = <<>> /\ status = NULL
  /\ isProcessing = FALSE /\ isQuerying = FALSE
  /\ results = <<>> /\ selectedSnippet = <<>> /\ progress = <<0, 1>>
  /\ \E shape \in TextShapes : \E n \in TextLengths : \E page \in ChunkPages :
       arg = <<[text |-> textOf(shape, n), page |-> page]>>
  /\ ret = <<>>

ApplyBuildChunks ==
  /\ Len(arg) = 1 /\ Len(ret) = 0
  /\ ret' = <<[chunks |-> buildChunks(arg[1].text, arg[1].page),
               iterations |-> loopIterations(stripNul(arg[1].text), 0)]>>
  /\ UNCHANGED <<embedderVars, loads, queries, pdfDocument, fileName, snippets,
                 question, status, isProcessing, isQuerying, results,
                 selectedSnippet, progress, arg>>

NextChunks == ApplyBuildChunks

SpecChunks == InitChunks /\ [][NextChunks]_vars

(***************************************************************************)
(* cosineSimilarity applied on its own: arg holds two vectors, of lengths  *)
(* 0..MaxVecLen and not always of the same length, ret what the call       *)
(* returns.                                                                *)
(***************************************************************************)
Vectors == UNION {[1..n -> -1..1] : n \in 0..MaxVecLen}

InitCosine ==
  /\ embedderPromise = 0 /\ promiseState = <<>> /\ waiters = <<>>
  /\ loads = <<>> /\ queries = <<>>
  /\ pdfDocument = NULL /\ fileName = NULL /\ snippets = <<>>
  /\ question = <<>> /\ status = NULL
  /\ isProcessing = FALSE /\ isQuerying = FALSE
  /\ results = <<>> /\ selectedSnippet = <<>> /\ progress = <<0, 1>>
  /\ \E a \in Vectors : \E b \in Vectors : arg = <<[a |-> a, b |-> b]>>
  /\ ret = <<>>

ApplyCosine ==
  /\ Len(arg) = 1 /\ Len(ret) = 0
  /\ ret' = <<cosineSimilarity(arg[1].a, arg[1].b)>>
  /\ UNCHANGED <<embedderVars, loads, queries, pdfDocument, fileName, snippets,
                 question, status, isProcessing, isQuerying, results,
                 selectedSnippet, progress, arg>>

NextCosine == ApplyCosine

SpecCosine == InitCosine /\ [][NextCosine]_vars

(***************************************************************************)
(* Claims.                                                                 *)
(***************************************************************************)
running(run) == run.pc # "done"

allLoadsEnded == \A l \in 1..Len(loads) : ~running(loads[l])

\* the passages a complete load of document d builds: page by page, chunk by
\* chunk, each with the embedding of its own text
RECURSIVE expectedUpTo(_, _)
expectedUpTo(d, n) ==
  IF n = 0 THEN <<>>
  ELSE LET chunks == buildChunks(Docs[d].pages[n], n)
       IN  expectedUpTo(d, n - 1) \o
           [i \in 1..Len(chunks) |->
              [id |-> chunks[i].id, page |-> n, text |-> chunks[i].text,
               embedding |-> emb(chunks[i].text),
               start |-> chunks[i].start, end |-> chunks[i].end]]

expectedIndexes == [d \in 1..Len(Docs) |-> expectedUpTo(d, Len(Docs[d].pages))]

expectedIndex(d) == expectedIndexes[d]

\* C1: however many runs call getEmbedder, before or after the model load
\* settles, pipeline(...) is started at most once, and every run that holds
\* a handle holds the one cached promise.
C1_SingleFlight ==
  /\ Len(promiseState) <= 1
  /\ \A l \in 1..Len(loads) :
       running(loads[l]) /\ loads[l].handle # 0 => loads[l].handle = embedderPromise
  /\ \A k \in 1..Len(queries) :
       running(queries[k]) /\ queries[k].handle # 0
         => queries[k].handle = embedderPromise

\* two runs called getEmbedder before the load resolved, and hold one handle
C1_Witness ==
  /\ Len(waiters) >= 2
  /\ Len(promiseState) = 1
  /\ promiseState[1] = "pending"

\* C2: when a load that a later load has superseded ends, no load is in
\* flight any more and the load started last has succeeded, the index holds
\* the passages of the load started last.
C2_LoadReplacement ==
  [][\A l \in 1..Len(loads) :
       (/\ l < Len(loads)
        /\ running(loads[l])
        /\ ~running(loads'[l])
        /\ allLoadsEnded'
        /\ loads'[Len(loads)].result = "ok")
       => snippets' = expectedIndex(loads[Len(loads)].doc)]_vars


\* the position in the index of the passage a result was made from
positionOf(r, index) ==
  CHOOSE i \in 1..Len(index) : index[i].id = r.id

\* C3: the result list of a query that succeeds has min(5, index size)
\* results, each a passage of the index with the cosine score of its own
\* embedding, in order of non-increasing score, results of equal score in
\* the order of the index.
C3_Ranking ==
  (Len(ret) = 1 /\ ~ret[1].thrown) =>
    LET index == arg[1].index
        q == arg[1].questionEmbedding
        r == ret[1].value
    IN  /\ Len(r) = IF Len(index) < 5 THEN Len(index) ELSE 5
        /\ \A i \in 1..Len(r) :
             /\ \E k \in 1..Len(index) : index[k].id = r[i].id
             /\ withScore(index[positionOf(r[i], index)],
                          cosineSimilarity(q, index[positionOf(r[i], index)].embedding).value)
                  = r[i]
        /\ \A i, j \in 1..Len(r) :
             i < j =>
               /\ scoreDiff(r[i].score, r[j].score) >= 0
               /\ scoreDiff(r[i].score, r[j].score) = 0
                    => positionOf(r[i], index) < positionOf(r[j], index)

\* a ranking of more than five passages whose results include a tie
C3_Witness ==
  /\ Len(ret) = 1 /\ ~ret[1].thrown
  /\ Len(arg[1].index) > 5
  /\ Len(ret[1].value) = 5
  /\ \E i \in 1..4 :
       /\ scoreDiff(ret[1].value[i].score, ret[1].value[i + 1].score) = 0
       /\ ret[1].value[i].embedding # ret[1].value[i + 1].embedding
  /\ \E i \in 1..4 :
       scoreDiff(ret[1].value[i].score, ret[1].value[i + 1].score) > 0


indexComplete ==
  \/ snippets = <<>>
  \/ \E l \in 1..Len(loads) :
       loads[l].result = "ok" /\ snippets = expectedIndex(loads[l].doc)

fails(l) == running(loads[l]) /\ loads'[l].result = "failed"

\* C4 as stated: the index is always empty or the complete passage list of a
\* load that ran to completion, and after a load has failed with no other
\* load in flight the index is empty.
C4_Original ==
  [][/\ indexComplete'
     /\ \A l \in 1..Len(loads) : fails(l) /\ allLoadsEnded' => snippets' = <<>>]_vars

\* C4, amended: the index is always empty or the complete passage list of a
\* load that ran to completion; a load empties the index when it starts, a
\* load that fails leaves the index as it was just before the failure, and
\* nothing but the start of a load or the success of a load changes the index.
C4_NoPartialIndex ==
  [][/\ indexComplete'
     /\ Len(loads') > Len(loads) => snippets' = <<>>
     /\ \A l \in 1..Len(loads) : fails(l) => snippets' = snippets
     /\ snippets' # snippets =>
          \/ Len(loads') > Len(loads)
          \/ \E l \in 1..Len(loads) :
               running(loads[l]) /\ loads'[l].result = "ok"]_vars

\* a load has failed after it had built the passages of a page: the index
\* is empty
C4_Witness ==
  /\ Len(loads) = 1
  /\ loads[1].result = "failed"
  /\ progress[1] >= 1
  /\ snippets = <<>>

queryFails(k) ==
  /\ queries'[k].result = "failed"
  /\ k > Len(queries) \/ queries[k].result = "running"

\* C5: a step in which a query fails leaves the index, the displayed
\* results and the selected result as they were and sets isQuerying false.
C5_FailedQuery ==
  [][\A k \in 1..Len(queries') :
       queryFails(k) =>
         /\ snippets' = snippets
         /\ results' = results
         /\ selectedSnippet' = selectedSnippet
         /\ isQuerying' = FALSE]_vars

\* a query has failed and a later query on the index has succeeded
C5_Witness ==
  /\ Len(queries) = 2
  /\ queries[1].result = "failed"
  /\ queries[2].result = "ok"
  /\ Len(snippets) > 0
  /\ Len(results) > 0
  /\ ~isQuerying

blank(q) == \A i \in 1..Len(q) : IsWhitespace(q[i])

\* handleQuery runs on a blank question or on an empty index
blankQuery == Len(queries') > Len(queries) /\ (blank(question) \/ Len(snippets) = 0)

noEmbeddingCall ==
  /\ UNCHANGED embedderVars
  /\ ~running(queries'[Len(queries')])

\* C6 as stated: a query on a blank question or an empty index ends with no
\* results displayed, with no error, and calls no embedding.
C6_Original ==
  [][blankQuery =>
       /\ results' = <<>>
       /\ status' = status
       /\ noEmbeddingCall]_vars

\* C6, amended: a query on a blank question or an empty index returns at
\* once: it leaves the displayed results, the selected result, the status
\* and isQuerying as they were, and calls no embedding.
C6_QueryPreconditions ==
  [][blankQuery =>
       /\ results' = results
       /\ selectedSnippet' = selectedSnippet
       /\ status' = status
       /\ isQuerying' = isQuerying
       /\ queries'[Len(queries')].result = "skipped"
       /\ noEmbeddingCall]_vars

\* a query was made on a whitespace-only question while results of an
\* earlier query were displayed
C6_Witness ==
  /\ \E k \in 1..Len(queries) : queries[k].result = "skipped"
  /\ Len(question) > 0
  /\ blank(question)
  /\ Len(results) > 0


pageOf(ld) == Docs[ld.doc].pages[ld.pageNumber]

embedding(ld) == ld.pc \in {"awaitEmbedder", "infer"}

\* C7: a load that succeeds sets the index to the passages of its document,
\* page by page in ascending order, within a page chunk by chunk, each
\* chunk with the embedding of its own text; embedBatch is only ever called
\* for a page that has chunks, with the chunks of that page.
C7_IndexConstruction ==
  [][/\ \A l \in 1..Len(loads) :
          running(loads[l]) /\ loads'[l].result = "ok"
            => snippets' = expectedIndex(loads[l].doc)
     /\ \A l \in 1..Len(loads') :
          embedding(loads'[l]) /\ ~embedding(loads[l])
            => /\ Len(loads'[l].pageChunks) > 0
               /\ loads'[l].pageChunks
                    = buildChunks(pageOf(loads'[l]), loads'[l].pageNumber)]_vars

\* a load of the document with a page without chunks between two pages with
\* chunks, one of them with two chunks, has succeeded
C7_Witness ==
  /\ \E l \in 1..Len(loads) : loads[l].result = "ok" /\ loads[l].doc = 1
  /\ snippets = expectedIndex(1)
  /\ Len(snippets) = 3
  /\ snippets[2].page = 3 /\ snippets[3].page = 3
  /\ snippets[2].embedding # snippets[3].embedding

\* the passages a load holds after a step: the index once it has succeeded
passagesAfter(l) ==
  IF loads'[l].result = "ok" THEN snippets' ELSE loads'[l].localSnippets

\* embedBatch returns to the load in this step
batchReturns(l) ==
  /\ loads[l].pc = "infer"
  /\ loads'[l].result # "failed"
  /\ loads'[l].pc # "infer" \/ loads'[l].pageNumber # loads[l].pageNumber

\* C8: while embedBatch runs, the one call in flight is for the text that
\* follows the texts already embedded, and the embeddings so far are those
\* of the first texts in order; when it returns, the load has one embedding
\* per text, the i-th that of the i-th text; when a call fails, the load
\* fails and nothing of the batch reaches the index.
C8_EmbedBatch ==
  [][\A l \in 1..Len(loads) :
       /\ loads'[l].pc = "infer" =>
            LET ld == loads'[l]
            IN  /\ Len(ld.embeddings) < Len(ld.pageChunks)
                /\ ld.text = ld.pageChunks[Len(ld.embeddings) + 1].text
                /\ \A i \in 1..Len(ld.embeddings) :
                     ld.embeddings[i] = emb(ld.pageChunks[i].text)
       /\ batchReturns(l) =>
            LET before == Len(loads[l].localSnippets)
                texts == loads[l].pageChunks
            IN  /\ Len(passagesAfter(l)) = before + Len(texts)
                /\ \A i \in 1..Len(texts) :
                     /\ passagesAfter(l)[before + i].text = texts[i].text
                     /\ passagesAfter(l)[before + i].embedding = emb(texts[i].text)
       /\ loads[l].pc = "infer" /\ loads'[l].result = "failed"
            => snippets' = snippets]_vars

\* the second call of a batch of two texts is in flight
C8_Witness ==
  \E l \in 1..Len(loads) :
    /\ loads[l].pc = "infer"
    /\ Len(loads[l].pageChunks) = 2
    /\ Len(loads[l].embeddings) = 1
    /\ loads[l].text = loads[l].pageChunks[2].text


malformed(data) == Len(data) = 0 \/ \E i \in 1..Len(data) : data[i] = "NaN"

\* C9: embedText throws whenever its inference call fails or resolves with
\* an empty vector or a vector that holds a NaN, and never returns such a
\* vector.
C9_EmbedTextRejectsMalformed ==
  Len(ret) = 1 =>
    /\ arg[1].fails \/ malformed(arg[1].data) => ret[1].thrown
    /\ ~ret[1].thrown => ~malformed(ret[1].value)

applied == Len(arg) = 1 /\ Len(ret) = 1

\* the cleaned text of the page text given to buildChunks
cleanedArg == stripNul(arg[1].text)

\* t is s without the whitespace at its two ends
isTrimOf(t, s) ==
  /\ Len(t) > 0
  /\ ~IsWhitespace(t[1]) /\ ~IsWhitespace(t[Len(t)])
  /\ LET k == CHOOSE k \in 0..(Len(s) - 1) : ~IsWhitespace(s[k + 1])
     IN  /\ \A p \in 1..k : IsWhitespace(s[p])
         /\ k + Len(t) <= Len(s)
         /\ t = SubSeq(s, k + 1, k + Len(t))
         /\ \A p \in (k + Len(t) + 1)..Len(s) : IsWhitespace(s[p])

\* C11: every chunk buildChunks emits has 0 <= start < end <= the length
\* of the cleaned text and end - start <= CHUNK_SIZE, its text is not empty
\* and is the characters start..end-1 of the cleaned text without the
\* whitespace at the two ends, and its page is the page given.
C11_ChunkWellFormed ==
  applied =>
    \A i \in 1..Len(ret[1].chunks) :
      LET c == ret[1].chunks[i]
      IN  /\ 0 <= c.start /\ c.start < c.end /\ c.end <= Len(cleanedArg)
          /\ c.end - c.start <= CHUNK_SIZE
          /\ Len(c.text) > 0
          /\ isTrimOf(c.text, SubSeq(cleanedArg, c.start + 1, c.end))
          /\ c.page = arg[1].page

\* buildChunks has emitted, for page 2, several chunks of a text with a NUL
\* character, one of them shorter than its window
C11_Witness ==
  /\ applied
  /\ arg[1].page = 2
  /\ Len(cleanedArg) < Len(arg[1].text)
  /\ Len(ret[1].chunks) >= 3
  /\ \E i \in 1..Len(ret[1].chunks) :
       Len(ret[1].chunks[i].text) < ret[1].chunks[i].end - ret[1].chunks[i].start

\* the ids of the chunks of the same text as another page of the document
idsOfOtherPages ==
  UNION {{buildChunks(arg[1].text, p)[i].id :
            i \in 1..Len(buildChunks(arg[1].text, p))} :
          p \in ChunkPages \ {arg[1].page}}

\* C12: in the chunks buildChunks emits for a page, in the order it emits
\* them, the start offsets strictly increase and the end offsets never
\* decrease; the ids of the chunks of a page are pairwise distinct, and
\* distinct from the ids of the chunks of another page.
C12_ChunkOrdering ==
  applied =>
    LET chunks == ret[1].chunks
    IN  /\ \A i \in 1..(Len(chunks) - 1) :
             /\ chunks[i].start < chunks[i + 1].start
             /\ chunks[i].end <= chunks[i + 1].end
        /\ \A i, j \in 1..Len(chunks) : i # j => chunks[i].id # chunks[j].id
        /\ \A i \in 1..Len(chunks) : chunks[i].id \notin idsOfOtherPages

\* buildChunks has emitted three chunks or more and dropped a window
\* between two of them
C12_Witness ==
  /\ applied
  /\ Len(ret[1].chunks) >= 3
  /\ ret[1].iterations > Len(ret[1].chunks)
  /\ ret[1].chunks[Len(ret[1].chunks)].end = Len(cleanedArg)

lastChunk == ret[1].chunks[Len(ret[1].chunks)]

\* C13 as stated, with L the length of the cleaned text: when buildChunks
\* emits a chunk, the end of the last chunk it emits is L.
C13_Original ==
  (applied /\ Len(ret[1].chunks) > 0) => lastChunk.end = Len(cleanedArg)

\* C13, amended: when the cleaned text, of length L, does not end in a
\* whitespace character, buildChunks emits a chunk and the end of the last
\* chunk it emits is L; in every case the cleaned text holds nothing but
\* whitespace from the end of the last emitted chunk on.
C13_LastChunkEnd ==
  applied =>
    LET L == Len(cleanedArg)
    IN  /\ (L > 0 /\ ~IsWhitespace(cleanedArg[L]))
             => /\ Len(ret[1].chunks) > 0
                /\ lastChunk.end = L
        /\ Len(ret[1].chunks) > 0
             => \A p \in (lastChunk.end + 1)..L : IsWhitespace(cleanedArg[p])

\* buildChunks has dropped the first windows of a text longer than
\* CHUNK_SIZE that ends in a letter, and the last chunk ends where the
\* cleaned text ends
C13_Witness ==
  /\ applied
  /\ Len(cleanedArg) > CHUNK_SIZE
  /\ ~IsWhitespace(cleanedArg[Len(cleanedArg)])
  /\ Len(ret[1].chunks) > 0
  /\ ret[1].iterations > Len(ret[1].chunks)
  /\ lastChunk.end = Len(cleanedArg)

\* the least integer that is at least a / b, for b > 0
ceilDiv(a, b) == -((-a) \div b)

\* max(1, ceil((L - O) / (S - O))) when L > 0, and 0 when L = 0
iterationsFor(L) ==
  IF L = 0 THEN 0
  ELSE LET n == ceilDiv(L - CHUNK_OVERLAP, CHUNK_SIZE - CHUNK_OVERLAP)
       IN  IF n < 1 THEN 1 ELSE n

\* C14 as stated, with L the length of the text given to buildChunks: the
\* loop ends after max(1, ceil((L - O) / (S - O))) iterations when L > 0 and
\* after none when L = 0, and emits no more chunks than it makes iterations.
C14_Original ==
  applied =>
    /\ ret[1].iterations = iterationsFor(Len(arg[1].text))
    /\ Len(ret[1].chunks) <= ret[1].iterations

\* C14, amended: with L the length of the cleaned text, the loop ends after
\* max(1, ceil((L - O) / (S - O))) iterations when L > 0 and after none when
\* L = 0, whatever windows it drops, and emits no more chunks than it makes
\* iterations.
C14_ChunkerTermination ==
  applied =>
    /\ ret[1].iterations = iterationsFor(Len(cleanedArg))
    /\ Len(ret[1].chunks) <= ret[1].iterations

\* the loop has run over a whitespace-only text of the least length that
\* takes three iterations, and has dropped every window
C14_Witness ==
  /\ applied
  /\ Len(cleanedArg) = 2 * CHUNK_SIZE - CHUNK_OVERLAP + 1
  /\ ret[1].iterations = 3
  /\ ret[1].chunks = <<>>

blankText(t) == \A i \in 1..Len(t) : IsWhitespace(t[i])

\* the whole text without the whitespace at its two ends
wholeTrimmed(t, c) ==
  /\ c.start = 0
  /\ c.end = Len(t)
  /\ isTrimOf(c.text, t)

\* C15 as stated: for a text of at most CHUNK_SIZE characters, buildChunks
\* emits nothing when the text is empty or whitespace only, and otherwise
\* one chunk, with start 0, end the length of the text and, as its text,
\* the whole text trimmed.
C15_Original ==
  (applied /\ Len(arg[1].text) <= CHUNK_SIZE) =>
    IF blankText(arg[1].text) THEN ret[1].chunks = <<>>
    ELSE /\ Len(ret[1].chunks) = 1
         /\ wholeTrimmed(arg[1].text, ret[1].chunks[1])

\* C15, amended: the same of the cleaned text: when it has at most
\* CHUNK_SIZE characters, buildChunks emits nothing when it is empty or
\* whitespace only, and otherwise one chunk, with start 0, end the length
\* of the cleaned text and, as its text, the whole cleaned text trimmed.
C15_ShortText ==
  (applied /\ Len(cleanedArg) <= CHUNK_SIZE) =>
    IF blankText(cleanedArg) THEN ret[1].chunks = <<>>
    ELSE /\ Len(ret[1].chunks) = 1
         /\ wholeTrimmed(cleanedArg, ret[1].chunks[1])

\* buildChunks has emitted one chunk for a text of exactly CHUNK_SIZE
\* characters with whitespace at its two ends
C15_Witness ==
  /\ applied
  /\ Len(cleanedArg) = CHUNK_SIZE
  /\ IsWhitespace(cleanedArg[1]) /\ IsWhitespace(cleanedArg[CHUNK_SIZE])
  /\ Len(ret[1].chunks) = 1
  /\ Len(ret[1].chunks[1].text) = CHUNK_SIZE - 2

\* position p, from 1, of the cleaned text lies in the range [start, end)
\* of one of the chunks
covered(p, chunks) ==
  \E i \in 1..Len(chunks) : chunks[i].start < p /\ p <= chunks[i].end

\* C21: every character of the cleaned text that is not whitespace lies in
\* the range [start, end) of a chunk buildChunks emits, whatever windows it
\* drops.
C21_ChunkCoverage ==
  applied =>
    LET cleaned == cleanedArg
        chunks == ret[1].chunks
    IN  \A p \in 1..Len(cleaned) :
          ~IsWhitespace(cleaned[p]) => covered(p, chunks)

\* buildChunks has dropped a window between two chunks it emitted, which
\* leaves characters of the cleaned text in no chunk, and the text holds
\* letters after them
C21_Witness ==
  /\ applied
  /\ \E i \in 1..(Len(ret[1].chunks) - 1) :
       ret[1].chunks[i].end < ret[1].chunks[i + 1].start
  /\ \E p \in 1..Len(cleanedArg) : ~covered(p, ret[1].chunks)
  /\ ~IsWhitespace(cleanedArg[Len(cleanedArg)])

(***************************************************************************)
(* Claims about cosineSimilarity.                                          *)
(***************************************************************************)
allZero(v) == \A i \in 1..Len(v) : v[i] = 0

\* C16: cosineSimilarity throws for every two vectors of different
\* lengths, all-zero and empty vectors included, and for no two vectors of
\* the same length.
C16_DimensionMismatch ==
  applied => (ret[1].thrown <=> Len(arg[1].a) # Len(arg[1].b))

\* cosineSimilarity has thrown for an all-zero vector and a shorter one
C16_Witness ==
  /\ applied
  /\ ret[1].thrown
  /\ Len(arg[1].a) > Len(arg[1].b)
  /\ Len(arg[1].b) > 0
  /\ allZero(arg[1].a)

\* C17: for two vectors of the same length of which one at least is
\* all-zero or empty, cosineSimilarity returns 0, from the return of line
\* 16 and not from the division.
C17_ZeroNorm ==
  (/\ applied
   /\ Len(arg[1].a) = Len(arg[1].b)
   /\ allZero(arg[1].a) \/ allZero(arg[1].b))
  => /\ ~ret[1].thrown
     /\ ret[1].value = zeroScore
     /\ ~ret[1].divided

\* cosineSimilarity has returned 0 for a vector that is not zero and an
\* all-zero vector of the same length
C17_Witness ==
  /\ applied
  /\ Len(arg[1].a) = MaxVecLen /\ Len(arg[1].b) = MaxVecLen
  /\ ~allZero(arg[1].a) /\ allZero(arg[1].b)
  /\ ~ret[1].thrown
  /\ ret[1].value = zeroScore

(***************************************************************************)
(* Claims about the component's state.                                     *)
(***************************************************************************)
\* r is a passage of the index, with or without a score
isPassageOf(r, index) ==
  \E k \in 1..Len(index) :
    /\ index[k].id = r.id /\ index[k].page = r.page
    /\ index[k].text = r.text /\ index[k].embedding = r.embedding
    /\ index[k].start = r.start /\ index[k].end = r.end

\* C18: every displayed result, and the selected result, is a passage of
\* the index the component holds.
C18_ResultsOfCurrentIndex ==
  /\ \A i \in 1..Len(results) : isPassageOf(results[i], snippets)
  /\ Len(selectedSnippet) = 1 => isPassageOf(selectedSnippet[1], snippets)

loadInFlight == \E l \in 1..Len(loads) : running(loads[l])

\* C19: isProcessing is true exactly when a document load is in flight.
C19_ProcessingFlag == isProcessing <=> loadInFlight

rejected == embedderPromise # 0 /\ promiseState[embedderPromise] = "rejected"

\* the load is about to get the text of a page that has chunks: its next
\* step calls embedBatch
reachesEmbedding(ld) ==
  /\ ld.pc = "extract"
  /\ ~skipPage(buildChunks(pageOf(ld), ld.pageNumber))

\* C20: once the model load has failed, the failed promise stays cached and
\* no model load is started again; a load that reaches the embedding of a
\* page fails there, a query that passes its preconditions fails, and a
\* load only succeeds when no page of its document has a chunk.
C20_FailedInitSticky ==
  [][rejected =>
       /\ embedderPromise' = embedderPromise
       /\ promiseState' = promiseState
       /\ \A l \in 1..Len(loads) :
            /\ (reachesEmbedding(loads[l]) /\ loads'[l] # loads[l])
                 => loads'[l].result = "failed"
            /\ (running(loads[l]) /\ loads'[l].result = "ok")
                 => expectedIndex(loads[l].doc) = <<>>
       /\ (Len(queries') > Len(queries) /\ ~queryReturnsEarly(question, snippets))
            => queries'[Len(queries')].result = "failed"]_vars

\* the model load has failed, and with it the load of one document; the
\* load of a second document, with text, has failed too, and the index is
\* empty
C20_Witness ==
  /\ promiseState = <<"rejected">>
  /\ Len(loads) = 2
  /\ loads[1].doc = 2 /\ loads[1].result = "failed"
  /\ loads[2].doc = 1 /\ loads[2].result = "failed"
  /\ pdfDocument = Docs[1].name
  /\ snippets = <<>>
  /\ ~isProcessing

=============================================================================
